---- MODULE Spec2Model ----
(***************************************************************************)
(* A model of the PhotoGallery widget (src/photogallery.js): the index     *)
(* state machine (goto / next / prev), the drag handlers (_touchStart,     *)
(* _touchMove, _touchEnd), the autoplay timers (startAutoplay and its      *)
(* hover listeners) and the effect of each handler on the track's style    *)
(* and on the navigation strip.                                            *)
(*                                                                         *)
(* Every handler runs to completion (single-threaded event loop), so each  *)
(* action is one whole handler.                                            *)
(*                                                                         *)
(* The track's transform is a percentage that _touchMove computes as       *)
(* -(activeIndex * 100) + (diff / stageWidth) * 100.  To keep it exact it  *)
(* is stored multiplied by StageWidth: trackTransform is the percentage    *)
(* times StageWidth.                                                       *)
(***************************************************************************)
EXTENDS Integers, FiniteSets

\* ---------------------------------------------------------------- bounds
\* Largest number of <img> items found in the container.
MaxN == 3
\* goto(index) is called by the host with index in -MaxOver .. N-1+MaxOver.
MaxOver == 1
\* Largest number of setInterval timers live at the same time.
MaxTimers == 2
\* Number of startAutoplay calls (each registers one more pair of hover
\* listeners).
MaxListeners == 2
\* Number of consecutive timer ticks that are counted.
MaxTicks == 3

\* this.stage.offsetWidth, in pixels.
StageWidth == 300

\* The drag distance, in pixels, from which a drag changes the slide.
threshold == 50

\* Pointer positions (pageX / clientX) delivered by the pointer events.
Positions == {40, 70, 100}


VARIABLES
    itemsLength,     \* this.items.length
    config,          \* this.config: loop, nav
    activeIndex,     \* this.activeIndex
    isDragging,      \* this.isDragging
    startPos,        \* this.startPos
    currentTranslate,\* this.currentTranslate
    trackTransition, \* this.track.style.transition: "none" or "ease"
    trackTransform,  \* this.track.style.transform, percentage * StageWidth
    navActive,       \* indices of the nav entries carrying class "active"
    interval,        \* this.interval: a timer id, 0 when undefined
    timers,          \* ids of the live setInterval timers
    listeners,       \* number of mouseenter/mouseleave listener pairs on el
    hovering,        \* the mouse pointer is over el
    \* history variables, written but never read by the handlers
    lastPosition,    \* position of the last sample of the drag in progress
    baseIndex,       \* activeIndex when the drag in progress began (from idle)
    paused,          \* mouseenter cleared the timer; no mouseleave or start since
    ticks,           \* timer ticks since the last other event
    tickBase,        \* activeIndex when the last other event had finished
    lastOp           \* the handler that ran last, and its argument

vars == <<itemsLength, config, activeIndex, isDragging, startPos,
          currentTranslate, trackTransition, trackTransform, navActive,
          interval, timers, listeners, hovering,
          lastPosition, baseIndex, paused, ticks, tickBase, lastOp>>

navVars == <<activeIndex, currentTranslate, trackTransition, trackTransform,
             navActive>>
dragVars == <<isDragging, startPos>>
timerVars == <<interval, timers, listeners>>
constVars == <<itemsLength, config>>

\* lastOp: the handler, the index it was called with (goto) and goto's
\* animate argument.  For _touchEnd and the stage's mouseleave listener the
\* argument is 0 when no drag was active, and otherwise 1 plus the number
\* of timer ticks that fired just before it.
Op(name, arg) == [op |-> name, arg |-> arg, animate |-> TRUE]
GotoOp(index, animate) == [op |-> "goto", arg |-> index, animate |-> animate]

\* ------------------------------------------------------------------ goto
\* gotoIndex without the upper clamp of Clamp mode.
gotoIndexNoUpper(index) ==
    IF config.loop
    THEN LET i1 == IF index < 0 THEN itemsLength - 1 ELSE index
         IN  IF i1 >= itemsLength THEN 0 ELSE i1
    ELSE IF index < 0 THEN 0 ELSE index

\* gotoIndex with Loop mode stopping at the ends instead of wrapping.
gotoIndexNoWrap(index) ==
    LET i1 == IF index < 0 THEN 0 ELSE index
    IN  IF i1 >= itemsLength THEN itemsLength - 1 ELSE i1

\* The index goto(index) resolves to: the two if statements of each branch
\* run one after the other.
gotoIndex(index) ==
    IF config.loop
    THEN LET i1 == IF index < 0 THEN itemsLength - 1 ELSE index
         IN  IF i1 >= itemsLength THEN 0 ELSE i1
    ELSE LET i1 == IF index < 0 THEN 0 ELSE index
         IN  IF i1 >= itemsLength THEN itemsLength - 1 ELSE i1

\* The track offset goto applies for an index, as a scaled percentage.
percentage(index) == (0 - (index * 100)) * StageWidth

\* The nav entries goto leaves highlighted: all are cleared, then
\* thumbs[index] is highlighted when it exists.
navHighlight(index) ==
    IF config.nav /\ index \in 0..(itemsLength - 1) THEN {index} ELSE {}

transitionOf(animate) == IF animate THEN "ease" ELSE "none"

\* goto returning early when the index does not change.
gotoSkipSame(index, animate) ==
    IF gotoIndex(index) = activeIndex
    THEN UNCHANGED <<activeIndex, trackTransition, trackTransform,
                     currentTranslate, navActive>>
    ELSE /\ activeIndex' = gotoIndex(index)
         /\ trackTransition' = transitionOf(animate)
         /\ trackTransform' = percentage(gotoIndex(index))
         /\ currentTranslate' = percentage(gotoIndex(index))
         /\ navActive' = navHighlight(gotoIndex(index))

goto(index, animate) ==
    /\ activeIndex' = gotoIndex(index)
    /\ trackTransition' = transitionOf(animate)
    /\ trackTransform' = percentage(gotoIndex(index))
    /\ currentTranslate' = percentage(gotoIndex(index))
    /\ navActive' = navHighlight(gotoIndex(index))

\* next() moving two items on.
nextSkips == goto(activeIndex + 2, TRUE)

next == goto(activeIndex + 1, TRUE)

prev == goto(activeIndex - 1, TRUE)

\* An event other than a timer tick restarts the count of ticks.
NoTick == ticks' = 0 /\ tickBase' = activeIndex'

\* ---------------------------------------------------------------- timers
\* The timer ids.  An id is an opaque handle, and every setInterval call of
\* the class assigns its result to this.interval, so the id of a cleared
\* timer that this.interval may still hold is overwritten by the call:
\* setInterval returns the least id that is not live.
TimerIds == 1..(MaxTimers + 1)

freshId(live) ==
    CHOOSE id \in TimerIds :
        /\ id \notin live
        /\ \A other \in TimerIds \ live : id <= other

\* this.interval = setInterval(...): the live timers and this.interval
\* afterwards.
setInterval(live, held) ==
    [timers |-> live \cup {freshId(live)}, interval |-> freshId(live)]

\* this.interval = setInterval(...) run count times in a row.
RECURSIVE setIntervals(_, _, _)
setIntervals(count, live, held) ==
    IF count = 0
    THEN [timers |-> live, interval |-> held]
    ELSE LET one == setInterval(live, held)
         IN  setIntervals(count - 1, one.timers, one.interval)

\* clearInterval(id).
clearInterval(live, id) == live \ {id}

\* ------------------------------------------------------------------ Init
\* The state the constructor leaves: _render() has called goto(0, false),
\* and startAutoplay() has run when config.autoplay is set.  config.autoplay
\* is read nowhere else but as the delay of the timers, so it is an input
\* of Init and no part of the state.
Init ==
    /\ itemsLength \in 0..MaxN
    /\ config \in [loop : BOOLEAN, nav : BOOLEAN]
    /\ activeIndex = gotoIndex(0)
    /\ isDragging = FALSE
    /\ startPos = 0
    /\ currentTranslate = percentage(gotoIndex(0))
    /\ trackTransition = transitionOf(FALSE)
    /\ trackTransform = percentage(gotoIndex(0))
    /\ navActive = navHighlight(gotoIndex(0))
    /\ \E autoplay \in BOOLEAN :
          /\ interval = IF autoplay THEN setInterval({}, 0).interval ELSE 0
          /\ timers = IF autoplay THEN setInterval({}, 0).timers ELSE {}
          /\ listeners = IF autoplay THEN 1 ELSE 0
    /\ hovering \in BOOLEAN
    /\ lastPosition = 0
    /\ baseIndex = 0
    /\ paused = FALSE
    /\ ticks = 0
    /\ tickBase = activeIndex
    /\ lastOp = Op("constructor", 0)

\* --------------------------------------------------------- navigation
\* The host calls goto(index, animate).
GotoCall(index, animate) ==
    /\ goto(index, animate)
    /\ NoTick
    /\ lastOp' = GotoOp(index, animate)
    /\ UNCHANGED <<constVars, dragVars, timerVars, hovering, lastPosition,
                   baseIndex, paused>>

\* A click on nav entry index: goto(index).
NavClick(index) ==
    /\ config.nav
    /\ index \in 0..(itemsLength - 1)
    /\ goto(index, TRUE)
    /\ NoTick
    /\ lastOp' = Op("goto", index)
    /\ UNCHANGED <<constVars, dragVars, timerVars, hovering, lastPosition,
                   baseIndex, paused>>

\* next(): the next arrow, a click on the track, ArrowRight, or the host.
NextCall ==
    /\ next
    /\ NoTick
    /\ lastOp' = Op("next", 0)
    /\ UNCHANGED <<constVars, dragVars, timerVars, hovering, lastPosition,
                   baseIndex, paused>>

\* prev(): the previous arrow, ArrowLeft, or the host.
PrevCall ==
    /\ prev
    /\ NoTick
    /\ lastOp' = Op("prev", 0)
    /\ UNCHANGED <<constVars, dragVars, timerVars, hovering, lastPosition,
                   baseIndex, paused>>

\* ------------------------------------------------------------ autoplay
\* startAutoplay(): one setInterval, and one more pair of hover listeners.
startAutoplay ==
    /\ interval' = setInterval(timers, interval).interval
    /\ timers' = setInterval(timers, interval).timers
    /\ listeners' = listeners + 1

\* The host calls startAutoplay() (the constructor's call is part of Init).
StartAutoplay ==
    /\ listeners < MaxListeners
    /\ Cardinality(timers) < MaxTimers
    /\ startAutoplay
    /\ paused' = FALSE
    /\ UNCHANGED <<constVars, navVars, dragVars, hovering, lastPosition,
                   baseIndex>>
    /\ NoTick
    /\ lastOp' = Op("startAutoplay", 0)

\* The callback of a live timer fires: next().
Tick(t) ==
    /\ t \in timers
    /\ ticks < MaxTicks
    /\ next
    /\ ticks' = ticks + 1
    /\ lastOp' = Op("tick", 0)
    /\ UNCHANGED <<constVars, dragVars, timerVars, hovering, lastPosition,
                   baseIndex, paused, tickBase>>

\* The mouseenter listeners of el: each runs clearInterval(this.interval).
mouseenter ==
    /\ timers' = IF listeners > 0 THEN clearInterval(timers, interval) ELSE timers
    /\ UNCHANGED <<interval, listeners>>

\* The mouseleave listeners of el: each runs
\* this.interval = setInterval(...).
mouseleave ==
    /\ timers' = setIntervals(listeners, timers, interval).timers
    /\ interval' = setIntervals(listeners, timers, interval).interval
    /\ UNCHANGED listeners

\* ---------------------------------------------------------------- drag
\* _touchStart(event), for touchstart and mousedown.
TouchStart(position) ==
    /\ isDragging' = TRUE
    /\ startPos' = position
    /\ trackTransition' = "none"
    /\ lastPosition' = position
    /\ baseIndex' = IF isDragging THEN baseIndex ELSE activeIndex
    /\ UNCHANGED <<constVars, activeIndex, currentTranslate, trackTransform,
                   navActive, timerVars, hovering, paused>>
    /\ NoTick
    /\ lastOp' = Op("touchStart", 0)

\* The transform _touchMove applies, as a scaled percentage:
\* -(activeIndex * 100) + ((position - startPos) / stageWidth) * 100.
nextTranslate(position) ==
    (0 - (activeIndex * 100)) * StageWidth + (position - startPos) * 100

\* _touchMove without its early return.
TouchMoveUnguarded(position) ==
    /\ trackTransform' = nextTranslate(position)
    /\ lastPosition' = position
    /\ UNCHANGED <<constVars, activeIndex, currentTranslate, trackTransition,
                   navActive, dragVars, timerVars, hovering, baseIndex, paused>>
    /\ ticks' = 0 /\ tickBase' = activeIndex'
    /\ lastOp' = Op("touchMove", 0)

\* _touchMove writing activeIndex itself once the drag passes the threshold.
TouchMoveWritesIndex(position) ==
    /\ IF ~isDragging
       THEN UNCHANGED <<trackTransform, lastPosition, activeIndex>>
       ELSE /\ trackTransform' = nextTranslate(position)
            /\ lastPosition' = position
            /\ activeIndex' = IF startPos - position >= threshold
                              THEN activeIndex + 1 ELSE activeIndex
    /\ UNCHANGED <<constVars, currentTranslate, trackTransition,
                   navActive, dragVars, timerVars, hovering, baseIndex, paused>>
    /\ ticks' = 0 /\ tickBase' = activeIndex'
    /\ lastOp' = Op("touchMove", 0)

\* _touchMove(event), for touchmove and mousemove.
TouchMove(position) ==
    /\ IF ~isDragging
       THEN UNCHANGED <<trackTransform, lastPosition>>
       ELSE /\ trackTransform' = nextTranslate(position)
            /\ lastPosition' = position
    /\ UNCHANGED <<constVars, activeIndex, currentTranslate, trackTransition,
                   navActive, dragVars, timerVars, hovering, baseIndex, paused>>
    /\ NoTick
    /\ lastOp' = Op("touchMove", 0)

\* _touchEnd snapping back to the index the drag began at.
touchEndToBase ==
    /\ isDragging' = FALSE
    /\ goto(baseIndex, TRUE)
    /\ UNCHANGED startPos

\* _touchEnd ending the drag without calling goto.
touchEndNoSnap ==
    /\ isDragging' = FALSE
    /\ UNCHANGED <<navVars, startPos>>

\* _touchEnd(event): the second definition in the class body, which
\* replaces the first.
touchEnd ==
    /\ isDragging' = FALSE
    /\ goto(activeIndex, TRUE)
    /\ UNCHANGED startPos

\* The history of a drag is dropped when the drag is over.
EndOfDrag == lastPosition' = 0 /\ baseIndex' = 0

\* The argument lastOp records for a step that runs _touchEnd.
EndArg == IF isDragging THEN ticks + 1 ELSE 0

\* touchend or mouseup on the stage.
TouchEnd ==
    /\ touchEnd
    /\ EndOfDrag
    /\ UNCHANGED <<constVars, timerVars, hovering, paused>>
    /\ NoTick
    /\ lastOp' = Op("touchEnd", EndArg)

\* The stage's mouseleave listener doing nothing.
stageMouseleaveIgnores ==
    UNCHANGED <<navVars, dragVars, lastPosition, baseIndex>>

\* The mouseleave listener of the stage.
stageMouseleave ==
    IF isDragging
    THEN touchEnd /\ EndOfDrag
    ELSE UNCHANGED <<navVars, dragVars, lastPosition, baseIndex>>

\* ------------------------------------------------------------- pointer
\* The mouse pointer comes over the widget: the mouseenter listeners of el.
MouseEnter ==
    /\ ~hovering
    /\ hovering' = TRUE
    /\ mouseenter
    /\ paused' = (listeners > 0)
    /\ UNCHANGED <<constVars, navVars, dragVars, lastPosition, baseIndex>>
    /\ NoTick
    /\ lastOp' = Op("mouseenter", 0)

\* The mouse pointer leaves the widget: the mouseleave listeners of el.
MouseLeave ==
    /\ hovering
    /\ Cardinality(timers) + listeners <= MaxTimers
    /\ hovering' = FALSE
    /\ mouseleave
    /\ paused' = FALSE
    /\ UNCHANGED <<constVars, navVars, dragVars, lastPosition, baseIndex>>
    /\ NoTick
    /\ lastOp' = Op("mouseleave", 0)

\* The mouse pointer leaves the stage, for the rest of the widget or on its
\* way out of the widget (the mouseleave of el is then the next event): the
\* mouseleave listener of the stage.  The pointer comes over the stage
\* without any handler running, so hovering is all this step needs.
StageMouseLeave ==
    /\ hovering
    /\ stageMouseleave
    /\ UNCHANGED <<constVars, timerVars, hovering, paused>>
    /\ NoTick
    /\ lastOp' = Op("stageMouseleave", EndArg)

Next ==
    \/ \E index \in (0 - MaxOver)..(itemsLength - 1 + MaxOver), animate \in BOOLEAN :
          GotoCall(index, animate)
    \/ \E index \in 0..(MaxN + 1) : NavClick(index)
    \/ NextCall
    \/ PrevCall
    \/ StartAutoplay
    \/ \E t \in TimerIds : Tick(t)
    \/ \E position \in Positions : TouchStart(position)
    \/ \E position \in Positions : TouchMove(position)
    \/ TouchEnd
    \/ MouseEnter
    \/ MouseLeave
    \/ StageMouseLeave

Spec == Init /\ [][Next]_vars

\* ---------------------------------------------------------------- claims
Max(a, b) == IF a >= b THEN a ELSE b
Min(a, b) == IF a <= b THEN a ELSE b
Abs(a) == IF a >= 0 THEN a ELSE 0 - a

\* The step is an end of drag: touchend or mouseup, or the pointer leaving
\* the stage while dragging.
EndDragStep ==
    /\ isDragging
    /\ lastOp'.op \in {"touchEnd", "stageMouseleave"}

\* The distance of the drag in progress, in pixels.
deltaPixels == lastPosition - startPos

\* C1: with at least one item, activeIndex is a valid index in every
\* reachable state, in Clamp and in Loop mode, whatever the handlers that
\* ran (goto with any index, next, prev, the drag handlers, timer ticks).
C1_IndexInRange ==
    itemsLength >= 1 => activeIndex \in 0..(itemsLength - 1)

C1_Witness ==
    /\ itemsLength = MaxN
    /\ lastOp.op = "goto"
    /\ lastOp.arg = itemsLength
    /\ isDragging
    /\ timers # {}

\* C2: in Clamp mode with at least one item, goto(r) leaves activeIndex at
\* max(0, min(N-1, r)), and next() at the last index stays at the last
\* index.
C2_Clamp ==
    [][(~config.loop /\ itemsLength >= 1) =>
          /\ lastOp'.op = "goto" =>
                activeIndex' = Max(0, Min(itemsLength - 1, lastOp'.arg))
          /\ (lastOp'.op \in {"next", "tick"} /\ activeIndex = itemsLength - 1) =>
                activeIndex' = itemsLength - 1]_vars

C2_Witness ==
    /\ ~config.loop
    /\ itemsLength >= 2
    /\ lastOp.op = "goto"
    /\ lastOp.arg = itemsLength
    /\ activeIndex = itemsLength - 1

\* C3: in Loop mode with at least one item, goto(r) leaves activeIndex at
\* N-1 when r < 0, at 0 when r >= N and at r otherwise; so next() at the
\* last index gives 0 and prev() at index 0 gives N-1.
C3_Loop ==
    [][(config.loop /\ itemsLength >= 1) =>
          /\ lastOp'.op = "goto" =>
                activeIndex' = IF lastOp'.arg < 0 THEN itemsLength - 1
                               ELSE IF lastOp'.arg >= itemsLength THEN 0
                               ELSE lastOp'.arg
          /\ (lastOp'.op \in {"next", "tick"} /\ activeIndex = itemsLength - 1) =>
                activeIndex' = 0
          /\ (lastOp'.op = "prev" /\ activeIndex = 0) =>
                activeIndex' = itemsLength - 1]_vars

C3_Witness ==
    /\ config.loop
    /\ itemsLength = MaxN
    /\ lastOp.op = "goto"
    /\ lastOp.arg = 0 - 1
    /\ activeIndex = itemsLength - 1

\* C4: the end of a drag of at least the commit threshold moves to the
\* neighbour: next() when the drag went left, prev() when it went right.
C4_Commit ==
    [][(EndDragStep /\ itemsLength >= 1 /\ Abs(deltaPixels) >= threshold) =>
          activeIndex' = IF deltaPixels < 0
                         THEN gotoIndex(activeIndex + 1)
                         ELSE gotoIndex(activeIndex - 1)]_vars

\* C5: the end of a drag shorter than the commit threshold leaves
\* activeIndex at the value it had when the drag began.
C5_Cancel ==
    [][(EndDragStep /\ itemsLength >= 1 /\ Abs(deltaPixels) < threshold) =>
          activeIndex' = baseIndex]_vars

\* C6: at most one autoplay timer is live in every reachable state.
C6_OneTimer == Cardinality(timers) <= 1

\* C7: in Loop mode with at least one item, k timer ticks in a row from
\* activeIndex = a leave activeIndex = (a + k) mod N.
C7_TicksAdvance ==
    (config.loop /\ itemsLength >= 1) =>
        activeIndex = (tickBase + ticks) % itemsLength

C7_Witness ==
    /\ config.loop
    /\ itemsLength = 2
    /\ lastOp.op = "tick"
    /\ ticks = 3
    /\ activeIndex = (tickBase + 1) % itemsLength

\* C8: between the mouseenter that pauses autoplay and the next mouseleave
\* no timer tick fires.
C8_NoTickWhilePaused == paused => lastOp.op # "tick"

\* C9: _touchMove while no drag is active changes neither activeIndex nor
\* the presentation state (track offset, transition, highlighted nav entry).
C9_IdleMove ==
    [][(lastOp'.op = "touchMove" /\ ~isDragging) =>
          UNCHANGED <<activeIndex, trackTransform, trackTransition,
                      currentTranslate, navActive>>]_vars

C9_Witness ==
    /\ lastOp.op = "touchMove"
    /\ ~isDragging
    /\ startPos \in Positions
    /\ itemsLength >= 1

\* C10: with at least one item, goto(activeIndex) leaves activeIndex as it
\* is and applies the same presentation each time: offset -activeIndex
\* items, the transition of its animate argument, nav entry activeIndex
\* highlighted.  _touchEnd calls goto(this.activeIndex).
C10_GotoIdempotent ==
    [][(/\ itemsLength >= 1
        /\ \/ lastOp'.op = "goto" /\ lastOp'.arg = activeIndex
           \/ lastOp'.op = "touchEnd") =>
          /\ activeIndex' = activeIndex
          /\ trackTransform' = percentage(activeIndex)
          /\ currentTranslate' = percentage(activeIndex)
          /\ trackTransition' = transitionOf(lastOp'.animate)
          /\ navActive' = navHighlight(activeIndex)]_vars

C10_Witness ==
    /\ itemsLength >= 2
    /\ activeIndex >= 1
    /\ lastOp.op = "touchEnd"
    /\ startPos \in Positions
    /\ trackTransform = percentage(activeIndex)

\* C11: with no item the widget is inert: the constructor's goto, and every
\* goto, next and prev after it, leave activeIndex at 0.
C11_Inert == itemsLength = 0 => activeIndex = 0

\* C12: no autoplay timer is live while a drag is active.
C12_NoTimerWhileDragging == isDragging => timers = {}

\* C13: _touchEnd while no drag is active changes neither activeIndex nor
\* the drag state nor the track's offset and transition.
C13_IdleEnd ==
    [][(lastOp'.op = "touchEnd" /\ ~isDragging /\ itemsLength >= 1) =>
          UNCHANGED <<activeIndex, isDragging, startPos, trackTransform,
                      trackTransition>>]_vars

\* C14: a step that ends a drag (touchend or mouseup, or the pointer leaving
\* the stage while dragging) leaves the widget idle with the track's
\* transition enabled.
C14_DragEnds ==
    [][(isDragging /\ lastOp'.op \in {"touchEnd", "stageMouseleave"}) =>
          (~isDragging' /\ trackTransition' = transitionOf(TRUE))]_vars

C14_Witness ==
    /\ lastOp.op = "stageMouseleave"
    /\ lastOp.arg >= 1
    /\ ~isDragging
    /\ trackTransition = transitionOf(TRUE)
    /\ itemsLength >= 1

\* C15: every step that changes activeIndex is a step of goto (called
\* directly, by next or prev, by a timer tick or by _touchEnd), and
\* _touchStart and _touchMove leave activeIndex as it is.
C15_SingleWriter ==
    [][/\ activeIndex' # activeIndex =>
            /\ lastOp'.op \in {"goto", "next", "prev", "tick", "touchEnd",
                               "stageMouseleave"}
            /\ LET index == CASE lastOp'.op = "goto" -> lastOp'.arg
                               [] lastOp'.op \in {"next", "tick"} -> activeIndex + 1
                               [] lastOp'.op = "prev" -> activeIndex - 1
                               [] OTHER -> activeIndex
               IN  goto(index, lastOp'.animate)
       /\ lastOp'.op \in {"touchStart", "touchMove"} =>
            activeIndex' = activeIndex]_vars

C15_Witness ==
    /\ lastOp.op = "tick"
    /\ isDragging
    /\ lastPosition # startPos
    /\ activeIndex # baseIndex

\* C16: during a drag every _touchMove(position) puts the track at
\* -(baseIndex) items plus (position - startPos) / stageWidth, with the
\* transition off, baseIndex being activeIndex when the drag began.
C16_DragOffset ==
    [][(isDragging /\ lastOp'.op = "touchMove" /\ itemsLength >= 1) =>
          /\ trackTransform' =
                percentage(baseIndex) + (lastPosition' - startPos) * 100
          /\ trackTransition' = transitionOf(FALSE)]_vars

\* C17: _touchStart while a drag is active leaves the start position of the
\* drag as the first _touchStart recorded it.
C17_BeginOnlyFromIdle ==
    [][(isDragging /\ lastOp'.op = "touchStart") =>
          (startPos' = startPos /\ baseIndex' = baseIndex)]_vars

\* The part of the state C18 compares, and what a timer tick and an end of
\* drag make of it.
View ==
    [activeIndex |-> activeIndex, isDragging |-> isDragging,
     trackTransform |-> trackTransform, trackTransition |-> trackTransition,
     navActive |-> navActive]

gotoView(v, index) ==
    [v EXCEPT !.activeIndex = gotoIndex(index),
              !.trackTransform = percentage(gotoIndex(index)),
              !.trackTransition = transitionOf(TRUE),
              !.navActive = navHighlight(gotoIndex(index))]

tickView(v) == gotoView(v, v.activeIndex + 1)

endView(v) == [gotoView(v, v.activeIndex) EXCEPT !.isDragging = FALSE]

\* C18: with a drag active and a timer live, a timer tick followed by the
\* end of the drag and the end of the drag followed by a timer tick lead to
\* the same state: idle, the same activeIndex (a valid index when there are
\* items) and the track at -activeIndex.  The second conjunct ties the two
\* handlers' steps to tickView and endView.
C18_EitherOrder ==
    /\ [](( isDragging /\ timers # {}) =>
            LET tickFirst == endView(tickView(View))
                endFirst == tickView(endView(View))
            IN  /\ tickFirst = endFirst
                /\ ~tickFirst.isDragging
                /\ tickFirst.trackTransform = percentage(tickFirst.activeIndex)
                /\ itemsLength >= 1 =>
                      tickFirst.activeIndex \in 0..(itemsLength - 1))
    /\ [][/\ lastOp'.op = "tick" => View' = tickView(View)
          /\ (isDragging /\ lastOp'.op \in {"touchEnd", "stageMouseleave"}) =>
                View' = endView(View)]_vars

C18_Witness ==
    /\ lastOp.op = "touchEnd"
    /\ lastOp.arg = 2
    /\ ~isDragging
    /\ itemsLength = MaxN
    /\ activeIndex >= 1
    /\ trackTransform = percentage(activeIndex)

\* C19: whenever no drag is active the track is at -activeIndex items, and
\* with a navigation strip and at least one item the one highlighted nav
\* entry is the one at activeIndex.
C19_TrackFollowsIndex ==
    ~isDragging =>
        /\ trackTransform = percentage(activeIndex)
        /\ (config.nav /\ itemsLength >= 1) => navActive = {activeIndex}

C19_Witness ==
    /\ lastOp.op = "touchEnd"
    /\ lastOp.arg >= 1
    /\ ~isDragging
    /\ config.nav
    /\ activeIndex >= 1
    /\ startPos \in Positions
====
